---- MODULE Spec2Model ----
(***************************************************************************)
(* A model of ldpoisson_ex: the parameter space (ParamsManager), the sweep *)
(* driver (lDPoissonExSolver.run / _run_single) and the report parser      *)
(* (OutputData).                                                           *)
(*                                                                         *)
(* Conventions.  A Python dict is a sequence of [k, v] entries in          *)
(* insertion order.  A float is an integer count of hundredths (50 is      *)
(* 0.5).  An optional scalar is a record [some, val]; None is NoneVal.     *)
(* An identifier (the string _get_dir_name returns) is the sequence of its *)
(* "name(text)" segments; the empty identifier is <<>>, and joining it to  *)
(* the output root gives the output root itself.                           *)
(***************************************************************************)
EXTENDS Integers, Sequences, FiniteSets, TLC

VARIABLES
    config,                  \* the SimulationConfig: declared constants, variables
    mgr,                     \* the ParamsManager's fields
    pc,                      \* where the program is
    gen,                     \* the live generate_variables generator
    passes,                  \* the points each generate_variables pass yielded
    stage,                   \* how far the latest point got in _run_single
    err,                     \* the exception that ended the program, or "none"
    cwd,                     \* the process working directory
    simFiles,                \* files in the simulator's directory
    dirs,                    \* directories under (and including) the output root
    outFiles,                \* files relocated into per-point subdirectories
    invocations,             \* identifiers the simulator was started with
    exitCode,                \* exit status of the latest simulator invocation
    produced,                \* history: each recorded point, its identifier and scalars
    energies_ground_states,  \* run()'s accumulation buffer
    positions_ground_states, \* run()'s accumulation buffer
    saved,                   \* the arrays np.save persisted
    rendered,                \* the mapping the latest input file was rendered from
    report,                  \* the report file OutputData is reading
    rowIdx,                  \* OutputData's enumerate() index
    od                       \* the OutputData object being built

vars == <<config, mgr, pc, gen, passes, stage, err, cwd, simFiles, dirs,
          outFiles, invocations, exitCode, produced, energies_ground_states,
          positions_ground_states, saved, rendered, report, rowIdx, od>>

(***************************************************************************)
(* Bounds of the model.                                                    *)
(***************************************************************************)
MaxVars == 2      \* declared variables per configuration
MaxVals == 2      \* values in an explicit value list
MaxConsts == 1    \* declared constants per configuration
MaxPasses == 2    \* generate_variables passes in the parameter-space model
MaxRows == 3      \* rows of a report file, the header row included

Range(s) == {s[i] : i \in DOMAIN s}

SeqsUpTo(S, n) == UNION {[1..m -> S] : m \in 0..n}

RECURSIVE Prod(_)
Prod(s) == IF s = <<>> THEN 1 ELSE Head(s) * Prod(Tail(s))

NoneVal == [some |-> FALSE, val |-> 0]
Some(x) == [some |-> TRUE, val |-> x]

(***************************************************************************)
(* Python dict: insertion-ordered, a repeated key keeps its first position *)
(* and takes the last value.                                               *)
(***************************************************************************)
HasKey(d, k) == \E i \in DOMAIN d : d[i].k = k

DictGet(d, k) == d[CHOOSE i \in DOMAIN d : d[i].k = k].v

DictSet(d, k, v) ==
    IF HasKey(d, k)
    THEN [i \in DOMAIN d |-> IF d[i].k = k THEN [k |-> k, v |-> v] ELSE d[i]]
    ELSE Append(d, [k |-> k, v |-> v])

DictKeys(d) == [i \in DOMAIN d |-> d[i].k]

DictValues(d) == [i \in DOMAIN d |-> d[i].v]

RECURSIVE DictUpdate(_, _)
DictUpdate(d, entries) ==
    IF entries = <<>> THEN d
    ELSE DictUpdate(DictSet(d, Head(entries).k, Head(entries).v), Tail(entries))

\* constants | variables
DictMerge(a, b) == DictUpdate(a, b)

(***************************************************************************)
(* models.py: Array, Variable, Constant.                                   *)
(***************************************************************************)
ConstNames == {"T", "V"}
VarNames == {"V", "W"}
Values == {50 * i : i \in 0..MaxVals - 1}
ConstValues == {300}
Formats == {"None", "%.1f", "{:.1f}"}

ListValue(items) == [kind |-> "list", items |-> items, start |-> 0, end |-> 0, step |-> 1]
ArrayValue(a, b, s) == [kind |-> "array", items |-> <<>>, start |-> a, end |-> b, step |-> s]

\* Explicit lists (distinct values, ascending) and one range
ValueLists ==
    {l \in SeqsUpTo(Values, MaxVals) :
        \A i \in 1..Len(l) - 1 : l[i] < l[i + 1]}

ValueSpecs == {ListValue(l) : l \in ValueLists} \cup {ArrayValue(0, 75, 50)}

Constant == [name : ConstNames, value : ConstValues]
Variable == [name : VarNames, value : ValueSpecs, format : Formats]

SimulationConfig ==
    [constants : SeqsUpTo(Constant, MaxConsts),
     variables : SeqsUpTo(Variable, MaxVars)]

(***************************************************************************)
(* ParamsManager                                                           *)
(***************************************************************************)
\* np.arange(start, end, step) for step > 0: start + i*step for every
\* i < ceil((end - start) / step)
Arange(start, end, step) ==
    LET n == IF end <= start THEN 0 ELSE (end - start + step - 1) \div step
    IN  [i \in 1..n |-> start + (i - 1) * step]

Materialize(value) ==
    IF value.kind = "list" THEN value.items
    ELSE Arange(value.start, value.end, value.step)

ParamsManagerInit(constants, variables) ==
    [constants |->
        DictUpdate(<<>>, [i \in DOMAIN constants |->
            [k |-> constants[i].name, v |-> constants[i].value]]),
     variables |->
        DictUpdate(<<>>, [i \in DOMAIN variables |->
            [k |-> variables[i].name, v |-> Materialize(variables[i].value)]]),
     variable_formats |->
        DictUpdate(<<>>, [i \in DOMAIN variables |->
            [k |-> variables[i].name, v |-> variables[i].format]])]

shape_variables(m) == [i \in DOMAIN m.variables |-> Len(m.variables[i].v)]

(***************************************************************************)
(* generate_variables: a generator.  Its state is where it is suspended:   *)
(* "start" (not yet run), "product" with itertools.product's odometer      *)
(* (indices into the value pools, the rightmost advancing fastest), "once" *)
(* (suspended at the constants-only yield) or "done".                      *)
(***************************************************************************)
NoGen == [at |-> "none", indices |-> <<>>]
NewGen == [at |-> "start", indices |-> <<>>]

Pools(m) == DictValues(m.variables)

\* Mutant of ProductAdvance: only the last index ever advances (no carry)
ProductAdvanceNoCarry(indices, pools) ==
    LET n == Len(indices)
    IN  IF n > 0 /\ indices[n] < Len(pools[n])
        THEN [indices EXCEPT ![n] = @ + 1]
        ELSE <<>>

\* itertools.product's step: the rightmost index that can advance does, and
\* every index to its right restarts; <<>> when none can.
ProductAdvance(indices, pools) ==
    LET can == {i \in DOMAIN indices : indices[i] < Len(pools[i])}
    IN  IF can = {} THEN <<>>
        ELSE LET p == CHOOSE i \in can : \A j \in can : j <= i
             IN  [i \in DOMAIN indices |->
                    IF i < p THEN indices[i]
                    ELSE IF i = p THEN indices[i] + 1 ELSE 1]

\* The generator resumed: the generator's next state, and the point it
\* yields (ok) or StopIteration (~ok).
GenResume(m, g) ==
    IF g.at = "start" THEN
        IF m.variables = <<>>
        THEN [ok |-> TRUE, gen |-> [at |-> "once", indices |-> <<>>],
              point |-> m.constants]
        ELSE IF \E i \in DOMAIN m.variables : m.variables[i].v = <<>>
        THEN [ok |-> FALSE, gen |-> [at |-> "done", indices |-> <<>>],
              point |-> <<>>]
        ELSE LET first == [i \in DOMAIN m.variables |-> 1]
             IN  [ok |-> TRUE, gen |-> [at |-> "product", indices |-> first],
                  point |-> [i \in DOMAIN first |->
                      [k |-> m.variables[i].k, v |-> m.variables[i].v[1]]]]
    ELSE IF g.at = "product" THEN
        LET nxt == ProductAdvance(g.indices, Pools(m))
        IN  IF nxt = <<>>
            THEN [ok |-> FALSE, gen |-> [at |-> "done", indices |-> <<>>],
                  point |-> <<>>]
            ELSE [ok |-> TRUE, gen |-> [at |-> "product", indices |-> nxt],
                  point |-> [i \in DOMAIN nxt |->
                      [k |-> m.variables[i].k, v |-> m.variables[i].v[nxt[i]]]]]
    ELSE [ok |-> FALSE, gen |-> [at |-> "done", indices |-> <<>>], point |-> <<>>]

(***************************************************************************)
(* OutputData: the report parser.  A row is what csv.DictReader makes of a *)
(* line for the nine field names: nine cells, a cell the line does not     *)
(* reach being "missing" (restval None).  A cell is a record [kind, val]:  *)
(* "num" is text float() accepts, "empty" the empty string, "text" other   *)
(* text.                                                                   *)
(***************************************************************************)
Num(x) == [kind |-> "num", val |-> x]
EmptyCell == [kind |-> "empty", val |-> 0]
TextCell == [kind |-> "text", val |-> 0]
MissingCell == [kind |-> "missing", val |-> 0]

\* float(cell): the value, or the exception float raises
Float(cell) ==
    IF cell.kind = "num" THEN [err |-> "none", val |-> cell.val]
    ELSE IF cell.kind = "missing" THEN [err |-> "TypeError", val |-> 0]
    ELSE [err |-> "ValueError", val |-> 0]

\* x / 1e1, on hundredths
Div10(x) == x \div 10

NewOutputData ==
    [err |-> "none", z |-> <<>>, energy_conduction |-> <<>>,
     energy_valence |-> <<>>, electric_field |-> <<>>, energy_fermi |-> <<>>,
     density_electron |-> <<>>, density_hole |-> <<>>,
     energy_ground_state |-> NoneVal, position_ground_state |-> NoneVal]

\* The first of the floats a row's seven appends evaluate that raises
FirstFloatError(row) ==
    LET bad == {c \in 1..7 : Float(row[c]).err # "none"}
    IN  IF bad = {} THEN "none"
        ELSE Float(row[CHOOSE c \in bad : \A d \in bad : c <= d]).err

\* Whether the loop body takes the ground-state branch at this row
SeedsGroundState(o, row) ==
    row[9].kind # "missing" /\ ~o.energy_ground_state.some

\* One iteration of the "for i, row in enumerate(reader)" loop
ParseRow(o, i, row) ==
    IF i = 0 THEN o
    ELSE IF FirstFloatError(row) # "none"
    THEN [o EXCEPT !.err = FirstFloatError(row)]
    ELSE LET o1 == [o EXCEPT
                 !.z = Append(@, Div10(Float(row[1]).val)),
                 !.energy_conduction = Append(@, Float(row[2]).val),
                 !.energy_valence = Append(@, Float(row[3]).val),
                 !.electric_field = Append(@, Float(row[4]).val),
                 !.energy_fermi = Append(@, Float(row[5]).val),
                 !.density_electron = Append(@, Float(row[6]).val),
                 !.density_hole = Append(@, Float(row[7]).val)]
         IN  IF SeedsGroundState(o, row)
             THEN IF Float(row[9]).err # "none"
                  THEN [o1 EXCEPT !.err = Float(row[9]).err]
                  ELSE [o1 EXCEPT
                          !.energy_ground_state = Some(Float(row[9]).val),
                          !.position_ground_state =
                              Some(Div10(Float(row[1]).val))]
             ELSE o1

RECURSIVE ParseFrom(_, _, _)
ParseFrom(o, i, rows) ==
    IF o.err # "none" \/ i >= Len(rows) THEN o
    ELSE ParseFrom(ParseRow(o, i, rows[i + 1]), i + 1, rows)

\* OutputData(output_file), the file holding these rows
OutputDataInit(rows) == ParseFrom(NewOutputData, 0, rows)

\* Report rows the model feeds the parser: a position cell, the six cells
\* Ec..p alike, the Nd-Na cell, and the eigen-energy cell.
Row(y, mid, e) == <<y, mid, mid, mid, mid, mid, mid, Num(0), e>>
ShortRow(y) == <<y, MissingCell, MissingCell, MissingCell, MissingCell,
                 MissingCell, MissingCell, MissingCell, MissingCell>>
HeaderRow == Row(TextCell, TextCell, TextCell)

YCells == {Num(1000), Num(2050), TextCell}
MidCells == {Num(100), TextCell}
ECells == {MissingCell, EmptyCell, Num(5), Num(7)}

DataRows ==
    {Row(y, m, e) : y \in YCells, m \in MidCells, e \in ECells}
        \cup {ShortRow(y) : y \in YCells}

Reports ==
    {<<>>} \cup
    {<<HeaderRow>> \o d : d \in SeqsUpTo(DataRows, MaxRows - 1)}

\* The reports the simulator writes in the sweep model
SweepReports ==
    {<<HeaderRow, Row(Num(1000), Num(100), MissingCell)>>,
     <<HeaderRow, Row(Num(1000), Num(100), MissingCell),
                  Row(Num(2050), Num(100), Num(5))>>,
     <<HeaderRow, Row(Num(1000), TextCell, MissingCell)>>}

(***************************************************************************)
(* lDPoissonExSolver                                                       *)
(***************************************************************************)
\* format_str.format(v): str.format fills replacement fields only, so a
\* printf-style specifier, which has none, comes back as it is; "{:.1f}"
\* renders v (hundredths) rounded to tenths.
StrFormat(format_str, v) ==
    IF format_str = "{:.1f}" THEN [lit |-> "", num |-> (v + 5) \div 10]
    ELSE [lit |-> format_str, num |-> 0]

Segment(k, text) == [name |-> k, text |-> text]

\* _get_dir_name(variables): [err, id]
RECURSIVE DirNameFrom(_, _, _)
DirNameFrom(m, items, results) ==
    IF items = <<>> THEN [err |-> "none", id |-> results]
    ELSE LET k == Head(items).k
             v == Head(items).v
         IN  IF ~HasKey(m.variable_formats, k)
             THEN [err |-> "KeyError", id |-> <<>>]
             ELSE IF DictGet(m.variable_formats, k) = "None"
             THEN [err |-> "AttributeError", id |-> <<>>]
             ELSE DirNameFrom(m, Tail(items), Append(results,
                      Segment(k, StrFormat(DictGet(m.variable_formats, k), v))))

get_dir_name(m, variables) == DirNameFrom(m, variables, <<>>)

InputSuffix == ".txt"
OutputSuffixes == {"_Out.txt", "_Status.txt", "_Wave.txt"}
MoveOrder == <<".txt", "_Out.txt", "_Status.txt", "_Wave.txt">>

File(id, suffix) == [id |-> id, suffix |-> suffix]

\* What the external simulator does when sp.run starts it: it does not
\* start at all (sp.run raises), or it runs, writes some of its output
\* files (the report, when it writes it, holding these rows) and exits
\* with a status.
SimOutcomes ==
    {[started |-> FALSE, exit |-> 0, wrote |-> {}, report |-> <<>>]}
        \cup [started : {TRUE}, exit : {0, 1},
              wrote : (SUBSET OutputSuffixes) \ {OutputSuffixes},
              report : {<<>>}]
        \cup [started : {TRUE}, exit : {0, 1}, wrote : {OutputSuffixes},
              report : SweepReports]

\* Mutant of MoveFiles: a file that is not there is skipped
RECURSIVE MoveFilesSkipMissing(_, _, _)
MoveFilesSkipMissing(e, id, i) ==
    IF i > Len(MoveOrder) THEN [err |-> "none", env |-> e]
    ELSE LET f == File(id, MoveOrder[i])
         IN  IF f \notin e.simFiles
             THEN MoveFilesSkipMissing(e, id, i + 1)
             ELSE IF f \in e.outFiles
             THEN [err |-> "shutil.Error", env |-> e]
             ELSE MoveFilesSkipMissing([e EXCEPT !.simFiles = @ \ {f},
                                                 !.outFiles = @ \cup {f}],
                                       id, i + 1)

\* shutil.move of the files at MoveOrder[i..] into the point's directory
RECURSIVE MoveFiles(_, _, _)
MoveFiles(e, id, i) ==
    IF i > Len(MoveOrder) THEN [err |-> "none", env |-> e]
    ELSE LET f == File(id, MoveOrder[i])
         IN  IF f \notin e.simFiles
             THEN [err |-> "FileNotFoundError", env |-> e]
             ELSE IF f \in e.outFiles
             THEN [err |-> "shutil.Error", env |-> e]
             ELSE MoveFiles([e EXCEPT !.simFiles = @ \ {f},
                                      !.outFiles = @ \cup {f}], id, i + 1)

\* sp.run(...) between the two os.chdir calls: [err, env]
Invoke(e, id, o) ==
    LET called == [e EXCEPT !.cwd = "SimDir",
                            !.invocations = Append(@, id)]
    IN  IF ~o.started
        THEN [err |-> "FileNotFoundError", env |-> called]
        ELSE [err |-> "none",
              env |-> [called EXCEPT
                  !.simFiles = @ \cup {File(id, s) : s \in o.wrote},
                  !.exitCode = o.exit,
                  !.cwd = e.cwd]]

\* Mutant of MakeDirs: os.makedirs(dir_out_single, exist_ok=True)
MakeDirsExistOk(e, id) ==
    [err |-> "none", env |-> [e EXCEPT !.dirs = @ \cup {<<>>, id}]]

\* os.makedirs(dir_out_single): [err, env]
MakeDirs(e, id) ==
    IF id \in e.dirs THEN [err |-> "FileExistsError", env |-> e]
    ELSE [err |-> "none", env |-> [e EXCEPT !.dirs = @ \cup {<<>>, id}]]

\* _run_single(constants, variables), the simulator behaving as o:
\* [stage, err, env, output]
RunSingle(m, constants, variables, e, o) ==
    LET name == get_dir_name(m, variables)
        id == name.id
        written == [e EXCEPT
            !.simFiles = @ \cup {File(id, InputSuffix)},
            !.rendered = DictMerge(constants, variables)]
        invoked == Invoke(written, id, o)
        made == MakeDirs(invoked.env, id)
        moved == MoveFiles(made.env, id, 1)
        output == OutputDataInit(o.report)
    IN  IF name.err # "none"
        THEN [stage |-> "Pending", err |-> name.err, env |-> e,
              output |-> NewOutputData]
        ELSE IF invoked.err # "none"
        THEN [stage |-> "Rendered", err |-> invoked.err, env |-> invoked.env,
              output |-> NewOutputData]
        ELSE IF made.err # "none"
        THEN [stage |-> "Invoked", err |-> made.err, env |-> made.env,
              output |-> NewOutputData]
        ELSE IF moved.err # "none"
        THEN [stage |-> "Invoked", err |-> moved.err, env |-> moved.env,
              output |-> NewOutputData]
        ELSE IF File(id, "_Out.txt") \notin moved.env.outFiles
        THEN [stage |-> "Collected", err |-> "FileNotFoundError",
              env |-> moved.env, output |-> NewOutputData]
        ELSE IF output.err # "none"
        THEN [stage |-> "Collected", err |-> output.err, env |-> moved.env,
              output |-> NewOutputData]
        ELSE [stage |-> "Parsed", err |-> "none", env |-> moved.env,
              output |-> output]

(***************************************************************************)
(* numpy: reshape in C (row-major) order, and np.save.                     *)
(***************************************************************************)
MultiIndexes(shape) ==
    {idx \in [DOMAIN shape -> UNION {1..shape[k] : k \in DOMAIN shape}] :
        \A k \in DOMAIN shape : idx[k] <= shape[k]}

\* Mutant of FlatIndex: column-major (Fortran) order
RECURSIVE FlatIndexColumnMajor(_, _)
FlatIndexColumnMajor(idx, shape) ==
    IF idx = <<>> THEN 0
    ELSE (Head(idx) - 1) + Head(shape) * FlatIndexColumnMajor(Tail(idx), Tail(shape))

\* 0-based offset of a 1-based multi-index in row-major order
RECURSIVE FlatIndex(_, _)
FlatIndex(idx, shape) ==
    IF idx = <<>> THEN 0
    ELSE (Head(idx) - 1) * Prod(Tail(shape)) + FlatIndex(Tail(idx), Tail(shape))

\* np.array(flat).reshape(shape): [err, shape, at]
Reshape(flat, shape) ==
    IF Len(flat) # Prod(shape)
    THEN [err |-> "ValueError", shape |-> shape, at |-> <<>>]
    ELSE [err |-> "none", shape |-> shape,
          at |-> [idx \in MultiIndexes(shape) |-> flat[FlatIndex(idx, shape) + 1]]]

NoArray == [err |-> "unsaved", shape |-> <<>>, at |-> <<>>]
NothingSaved == [variables |-> <<>>, energies |-> NoArray, positions |-> NoArray]

\* The finalization of run(), after the loop: [err, saved].  np.save
\* fails when the output root does not exist.
Finalize(m, root_exists, energies, positions) ==
    LET e == Reshape(energies, shape_variables(m))
        p == Reshape(positions, shape_variables(m))
    IN  IF ~root_exists /\ m.variables # <<>>
        THEN [err |-> "FileNotFoundError", saved |-> NothingSaved]
        ELSE IF e.err # "none" \/ p.err # "none"
        THEN [err |-> "ValueError",
              saved |-> [NothingSaved EXCEPT !.variables = m.variables]]
        ELSE IF ~root_exists
        THEN [err |-> "FileNotFoundError",
              saved |-> [NothingSaved EXCEPT !.variables = m.variables]]
        ELSE [err |-> "none",
              saved |-> [variables |-> m.variables, energies |-> e,
                         positions |-> p]]

(***************************************************************************)
(* The sweep: cli.main builds the solver and calls run().                  *)
(***************************************************************************)
Env ==
    [cwd |-> cwd, simFiles |-> simFiles, dirs |-> dirs, outFiles |-> outFiles,
     invocations |-> invocations, exitCode |-> exitCode, rendered |-> rendered]

envVars == <<cwd, simFiles, dirs, outFiles, invocations, exitCode, rendered>>
sweepVars == <<stage, err, produced, energies_ground_states,
               positions_ground_states, saved>>
parseVars == <<report, rowIdx, od>>

SetEnv(e) ==
    /\ cwd' = e.cwd
    /\ simFiles' = e.simFiles
    /\ dirs' = e.dirs
    /\ outFiles' = e.outFiles
    /\ invocations' = e.invocations
    /\ exitCode' = e.exitCode
    /\ rendered' = e.rendered

\* The identifier of the configuration's first point, when it has one
FirstIdentifier(c) ==
    LET m == ParamsManagerInit(c.constants, c.variables)
        r == GenResume(m, NewGen)
    IN  IF r.ok /\ get_dir_name(m, r.point).err = "none"
        THEN {get_dir_name(m, r.point).id} ELSE {}

\* The output root before the run: absent, empty, or holding the directory
\* an earlier run of the same configuration left for the first point.
InitialDirs(c) ==
    {{}, {<<>>}} \cup {{<<>>, id} : id \in FirstIdentifier(c)}

IdleSweep ==
    /\ stage = "none"
    /\ err = "none"
    /\ cwd = "Home"
    /\ simFiles = {}
    /\ invocations = <<>>
    /\ exitCode = 0
    /\ rendered = <<>>
    /\ produced = {}
    /\ energies_ground_states = <<>>
    /\ positions_ground_states = <<>>
    /\ saved = NothingSaved

IdleParse ==
    /\ report = <<>>
    /\ rowIdx = 0
    /\ od = NewOutputData

NoManager == [constants |-> <<>>, variables |-> <<>>, variable_formats |-> <<>>]

Init ==
    /\ config \in SimulationConfig
    /\ mgr = NoManager
    /\ pc = "new"
    /\ gen = NoGen
    /\ passes = <<>>
    /\ IdleSweep
    /\ dirs \in InitialDirs(config)
    /\ outFiles = {File(id, s) : id \in dirs \ {<<>>}, s \in Range(MoveOrder)}
    /\ IdleParse

\* lDPoissonExSolver.__init__: builds the ParamsManager
SolverInit ==
    /\ pc = "new"
    /\ mgr' = ParamsManagerInit(config.constants, config.variables)
    /\ pc' = "ready"
    /\ UNCHANGED <<config, gen, passes, envVars, sweepVars, parseVars>>

\* run() up to its loop: the buffers are empty, the generator is created
RunStart ==
    /\ pc = "ready"
    /\ pc' = "loop"
    /\ gen' = NewGen
    /\ energies_ground_states' = <<>>
    /\ positions_ground_states' = <<>>
    /\ UNCHANGED <<config, mgr, passes, envVars, stage, err, produced, saved,
                   parseVars>>

\* One iteration of run()'s loop: the generator yields a point,
\* _run_single processes it, its two scalars are appended.
RunPoint ==
    /\ pc = "loop"
    /\ GenResume(mgr, gen).ok
    /\ \E o \in SimOutcomes :
        LET r == GenResume(mgr, gen)
            res == RunSingle(mgr, mgr.constants, r.point, Env, o)
        IN  /\ gen' = r.gen
            /\ SetEnv(res.env)
            /\ err' = res.err
            /\ IF res.err = "none"
               THEN /\ stage' = "Recorded"
                    /\ pc' = "loop"
                    /\ energies_ground_states' =
                         Append(energies_ground_states,
                                res.output.energy_ground_state)
                    /\ positions_ground_states' =
                         Append(positions_ground_states,
                                res.output.position_ground_state)
                    /\ produced' = produced \cup
                         {[indices |-> r.gen.indices,
                           point |-> r.point,
                           id |-> get_dir_name(mgr, r.point).id,
                           energy |-> res.output.energy_ground_state,
                           position |-> res.output.position_ground_state]}
               ELSE /\ stage' = res.stage
                    /\ pc' = "raised"
                    /\ UNCHANGED <<energies_ground_states,
                                   positions_ground_states, produced>>
    /\ UNCHANGED <<config, mgr, passes, saved, parseVars>>

\* The generator is exhausted: run() saves the arrays
RunFinalize ==
    /\ pc = "loop"
    /\ ~GenResume(mgr, gen).ok
    /\ LET fin == Finalize(mgr, <<>> \in dirs, energies_ground_states,
                           positions_ground_states)
       IN  /\ saved' = fin.saved
           /\ err' = fin.err
           /\ pc' = IF fin.err = "none" THEN "done" ELSE "raised"
    /\ gen' = GenResume(mgr, gen).gen
    /\ UNCHANGED <<config, mgr, passes, envVars, stage, produced,
                   energies_ground_states, positions_ground_states, parseVars>>

Next == SolverInit \/ RunStart \/ RunPoint \/ RunFinalize

Spec == Init /\ [][Next]_vars

(***************************************************************************)
(* The parameter space on its own: a ParamsManager whose                   *)
(* generate_variables is called and iterated, pass after pass.             *)
(***************************************************************************)
InitParams ==
    /\ config \in SimulationConfig
    /\ mgr = NoManager
    /\ pc = "new"
    /\ gen = NoGen
    /\ passes = <<>>
    /\ IdleSweep
    /\ dirs = {}
    /\ outFiles = {}
    /\ IdleParse

\* generate_variables(): a new generator, the earlier one exhausted
GenCall ==
    /\ pc = "ready"
    /\ gen.at \in {"none", "done"}
    /\ Len(passes) < MaxPasses
    /\ gen' = NewGen
    /\ passes' = Append(passes, <<>>)
    /\ UNCHANGED <<config, mgr, pc, envVars, sweepVars, parseVars>>

\* next() on the generator
GenNext ==
    /\ pc = "ready"
    /\ gen.at \in {"start", "product", "once"}
    /\ LET r == GenResume(mgr, gen)
       IN  /\ gen' = r.gen
           /\ passes' = IF r.ok
                        THEN [passes EXCEPT ![Len(passes)] = Append(@, r.point)]
                        ELSE passes
    /\ UNCHANGED <<config, mgr, pc, envVars, sweepVars, parseVars>>

NextParams == SolverInit \/ GenCall \/ GenNext

SpecParams == InitParams /\ [][NextParams]_vars

(***************************************************************************)
(* The parser on its own: OutputData(output_file), row by row.             *)
(***************************************************************************)
InitParse ==
    /\ config = [constants |-> <<>>, variables |-> <<>>]
    /\ mgr = NoManager
    /\ pc = "parsing"
    /\ gen = NoGen
    /\ passes = <<>>
    /\ IdleSweep
    /\ dirs = {}
    /\ outFiles = {}
    /\ report \in Reports
    /\ rowIdx = 0
    /\ od = NewOutputData

\* The loop body for the next row; an exception ends the parse
ParseNext ==
    /\ pc = "parsing"
    /\ rowIdx < Len(report)
    /\ od' = ParseRow(od, rowIdx, report[rowIdx + 1])
    /\ rowIdx' = rowIdx + 1
    /\ pc' = IF od'.err # "none" THEN "parse_raised" ELSE "parsing"
    /\ UNCHANGED <<config, mgr, gen, passes, envVars, sweepVars, report>>

\* The reader is exhausted: __init__ returns
ParseEnd ==
    /\ pc = "parsing"
    /\ rowIdx = Len(report)
    /\ pc' = "parsed"
    /\ UNCHANGED <<config, mgr, gen, passes, envVars, sweepVars, parseVars>>

NextParse == ParseNext \/ ParseEnd

SpecParse == InitParse /\ [][NextParse]_vars

(***************************************************************************)
(* Properties                                                              *)
(***************************************************************************)
Last(s) == s[Len(s)]

DeclaredNames(c) ==
    [i \in DOMAIN c.constants |-> c.constants[i].name]
        \o [i \in DOMAIN c.variables |-> c.variables[i].name]

HasDuplicateNames(c) ==
    \E i, j \in DOMAIN DeclaredNames(c) :
        i # j /\ DeclaredNames(c)[i] = DeclaredNames(c)[j]

\* C1: a configuration in which two declared names are equal fails at
\* construction: the program never gets past construction, no point is
\* yielded and the simulator is never invoked.
C1_DuplicateNamesFailConstruction ==
    HasDuplicateNames(config) =>
        /\ pc \in {"new", "raised"}
        /\ gen = NoGen
        /\ invocations = <<>>

\* C2: when the sweep completes, the saved arrays hold at every multi-index
\* (i_1, ..., i_n) the scalars recorded for the point the generator yielded
\* at odometer position (i_1, ..., i_n), the point whose k-th variable has
\* its i_k-th value.
C2_ReshapeMatchesIteration ==
    pc = "done" =>
        /\ saved.energies.err = "none"
        /\ saved.positions.err = "none"
        /\ saved.energies.shape = shape_variables(mgr)
        /\ \A idx \in MultiIndexes(shape_variables(mgr)) :
             \E p \in produced :
                /\ p.indices = idx
                /\ \A k \in DOMAIN idx :
                     /\ p.point[k].k = mgr.variables[k].k
                     /\ p.point[k].v = mgr.variables[k].v[idx[k]]
                /\ saved.energies.at[idx] = p.energy
                /\ saved.positions.at[idx] = p.position

C2_Witness ==
    /\ pc = "done"
    /\ shape_variables(mgr) = <<2, 2>>
    /\ saved.energies.at[<<1, 2>>] # saved.energies.at[<<2, 1>>]

\* The manager's variables as the declarations give them: one per distinct
\* declared name, in the order of the names' first declarations, each with
\* the values of the name's last declaration.
FirstDeclarations(c) ==
    {i \in DOMAIN c.variables :
        \A j \in 1..i - 1 : c.variables[j].name # c.variables[i].name}

RECURSIVE NamesInOrder(_, _)
NamesInOrder(c, i) ==
    IF i > Len(c.variables) THEN <<>>
    ELSE (IF i \in FirstDeclarations(c) THEN <<c.variables[i].name>> ELSE <<>>)
            \o NamesInOrder(c, i + 1)

LastValues(c, name) ==
    LET last == CHOOSE i \in DOMAIN c.variables :
                    /\ c.variables[i].name = name
                    /\ \A j \in DOMAIN c.variables :
                         c.variables[j].name = name => j <= i
    IN  Materialize(c.variables[last].value)

PassComplete(i) == i < Len(passes) \/ (i = Len(passes) /\ gen.at = "done")

\* C3: shape_variables has one entry per declared variable (name), in
\* declaration order, equal to the number of its values; a full pass of
\* generate_variables yields the product of shape_variables points, and
\* exactly the constants-only point when no variable is declared; a second
\* pass yields the same sequence.
C3_ShapeAndCount ==
    pc = "ready" =>
        /\ DictKeys(mgr.variables) = NamesInOrder(config, 1)
        /\ \A k \in DOMAIN mgr.variables :
             shape_variables(mgr)[k] = Len(LastValues(config, mgr.variables[k].k))
        /\ Len(shape_variables(mgr)) = Len(mgr.variables)
        /\ \A i \in DOMAIN passes : PassComplete(i) =>
             /\ Len(passes[i]) = Prod(shape_variables(mgr))
             /\ config.variables = <<>> => passes[i] = <<mgr.constants>>
        /\ \A i, j \in DOMAIN passes :
             PassComplete(i) /\ PassComplete(j) => passes[i] = passes[j]

C3_Witness ==
    /\ pc = "ready"
    /\ Len(passes) = 2
    /\ gen.at = "done"
    /\ shape_variables(mgr) = <<2, 2>>
    /\ Len(passes[2]) = 4

C3_WitnessNoVariables ==
    /\ pc = "ready"
    /\ Len(passes) = 2
    /\ gen.at = "done"
    /\ config.variables = <<>>
    /\ config.constants # <<>>

\* The latest step started the simulator and left one of its three output
\* files neither in the simulator's directory nor relocated.
MissingOutputAfterInvocation ==
    /\ invocations' # invocations
    /\ \E s \in OutputSuffixes :
         LET f == File(Last(invocations'), s)
         IN  f \notin simFiles' /\ f \notin (outFiles' \ outFiles)

\* C4: a point whose invocation leaves an expected output file missing
\* raises; nothing is recorded for it, nothing is persisted, what earlier
\* points left on disk stays, and from then on nothing runs: no later
\* invocation, no finalization.
C4_MissingOutputAborts ==
    [][/\ MissingOutputAfterInvocation =>
            /\ pc' = "raised"
            /\ err' # "none"
            /\ saved' = NothingSaved
            /\ energies_ground_states' = energies_ground_states
            /\ positions_ground_states' = positions_ground_states
            /\ outFiles \subseteq outFiles'
            /\ dirs \subseteq dirs'
            /\ \A p \in produced :
                 \A i \in DOMAIN MoveOrder : File(p.id, MoveOrder[i]) \in outFiles'
       /\ pc = "raised" =>
            /\ pc' = "raised"
            /\ invocations' = invocations
            /\ saved' = saved]_vars

C4_Witness ==
    /\ pc = "raised"
    /\ err = "FileNotFoundError"
    /\ stage = "Invoked"
    /\ Len(invocations) = 2
    /\ Cardinality(produced) = 1
    /\ File(Last(invocations), "_Out.txt") \in outFiles
    /\ File(Last(invocations), "_Wave.txt") \notin simFiles \cup outFiles
    /\ saved = NothingSaved

\* C5: a point whose simulator invocation exited with a nonzero status is
\* never collected, parsed or recorded.
C5_NonzeroExitIsFatal ==
    exitCode # 0 =>
        /\ stage \notin {"Collected", "Parsed", "Recorded"}
        /\ pc = "raised"

AllFormatsDeclared(c) ==
    \A i \in DOMAIN c.variables : c.variables[i].format # "None"

IdentifierNames(id) == [i \in DOMAIN id |-> id[i].name]

\* C6 (for configurations whose variables all declare a format): for every
\* point run() passes to _run_single, _get_dir_name does not fail, and the
\* identifier has one segment per variable, in the variables' order.
C6_IdentifierFromVariablesOnly ==
    AllFormatsDeclared(config) =>
        /\ ~(pc = "raised" /\ stage = "Pending")
        /\ \A i \in DOMAIN invocations :
             IdentifierNames(invocations[i]) = DictKeys(mgr.variables)

\* The text the variable's display format specifies for a value: one
\* decimal for "%.1f" and "{:.1f}", str(v) without a format.
SpecifiedText(format_str, v) ==
    IF format_str = "None" THEN [lit |-> "str", num |-> v]
    ELSE [lit |-> "", num |-> (v + 5) \div 10]

ExampleVariables ==
    <<[name |-> "V", value |-> ListValue(<<0, 50>>), format |-> "%.1f"]>>

\* C7: every segment of the identifier of the latest invocation carries the
\* variable's value as its display format specifies it (the default
\* stringification without a format), so no point fails for want of a
\* format; and the sweep of V = [0.0, 0.5] with format "%.1f" ends with the
\* invocations V(0.0), V(0.5) and ground-state arrays of shape (2,).
C7_FormattedIdentifier ==
    /\ err # "AttributeError"
    /\ invocations # <<>> =>
         \A j \in DOMAIN Last(invocations) :
            LET seg == Last(invocations)[j]
            IN  seg.text = SpecifiedText(DictGet(mgr.variable_formats, seg.name),
                                         DictGet(rendered, seg.name))
    /\ (config.variables = ExampleVariables /\ pc \in {"done", "raised"}) =>
         /\ pc = "done"
         /\ invocations = <<<<Segment("V", SpecifiedText("%.1f", 0))>>,
                            <<Segment("V", SpecifiedText("%.1f", 50))>>>>
         /\ saved.energies.shape = <<2>>
         /\ saved.positions.shape = <<2>>

\* The data rows the parser has consumed
ConsumedRows == {i \in 2..rowIdx : i <= Len(report)}

RequiredCellsNumeric(row) == \A c \in 1..7 : row[c].kind = "num"

\* C8: as long as the seven required cells of every consumed data row are
\* numeric, the parse has not raised, whatever the rows' 9th cells (empty
\* or missing included); the ground-state pair is None while no consumed
\* row has a non-empty 9th cell, and afterwards is that of the first such
\* row: its 9th cell, and its first cell / 10.
C8_SparseEigenColumn ==
    (pc \in {"parsing", "parsed", "parse_raised"}
        /\ \A i \in ConsumedRows : RequiredCellsNumeric(report[i])) =>
        LET seeds == {i \in ConsumedRows : report[i][9].kind = "num"}
        IN  /\ od.err = "none"
            /\ seeds = {} =>
                 /\ od.energy_ground_state = NoneVal
                 /\ od.position_ground_state = NoneVal
            /\ seeds # {} =>
                 LET first == CHOOSE i \in seeds : \A j \in seeds : i <= j
                 IN  /\ od.energy_ground_state = Some(report[first][9].val)
                     /\ od.position_ground_state =
                          Some(report[first][1].val \div 10)

\* C9: between the steps of run(), that is whenever _run_single has
\* returned or raised, the working directory is the one at entry.
C9_WorkingDirectoryRestored == cwd = "Home"

\* C10: files only ever enter a directory the same step created, nothing
\* already relocated is removed or replaced, every recorded point has its
\* four files in the directory named by its identifier, and a point whose
\* directory already exists fails at directory creation: nothing is
\* recorded for it and the output root is as it was.
C10_FreshDirectoryPerPoint ==
    [][/\ outFiles \subseteq outFiles'
       /\ \A f \in outFiles' \ outFiles : f.id \notin dirs /\ f.id \in dirs'
       /\ \A p \in produced' \ produced :
            /\ p.id \notin dirs
            /\ \A i \in DOMAIN MoveOrder :
                 File(p.id, MoveOrder[i]) \in outFiles' \ outFiles
       /\ (invocations' # invocations /\ Last(invocations') \in dirs) =>
            /\ pc' = "raised"
            /\ err' \in {"FileExistsError", "FileNotFoundError"}
            /\ err' = "FileNotFoundError" => stage' = "Rendered"
            /\ produced' = produced
            /\ energies_ground_states' = energies_ground_states
            /\ positions_ground_states' = positions_ground_states
            /\ outFiles' = outFiles
            /\ dirs' = dirs]_vars

C10_Witness ==
    /\ pc = "raised"
    /\ err = "FileExistsError"
    /\ stage = "Invoked"
    /\ Cardinality(produced) = 1
    /\ Len(invocations) = 2
    /\ invocations[1] = invocations[2]
    /\ \A i \in DOMAIN MoveOrder : File(invocations[1], MoveOrder[i]) \in outFiles

====
